---- MODULE Spec2Model ----
(***************************************************************************)
(* Jasper speech back ends (client/stt.py, client/tts.py): the engine      *)
(* registry and selector, the Baidu credential token, and the per-call     *)
(* behaviour of transcribe / say.                                          *)
(***************************************************************************)
EXTENDS Integers, Sequences, FiniteSets, TLC

VARIABLES
    module,     \* selector: which module's selector runs, "stt" or "tts"
    classes,    \* selector: SLUG of each engine subclass, in definition order ("" = no SLUG)
    setOrder,   \* selector: iteration order of the set built by get_subclasses
    available,  \* selector: the classes whose is_available() returns True
    lastCall,   \* selector: argument and outcome of the last get_engine_by_slug
    instance,      \* engine run: SLUG of the engine whose instance was constructed
    now,           \* engine run: the clock, int(time.time())
    access_token,  \* Baidu engines: self.access_token
    expires_in,    \* Baidu engines: self.expires_in
    current_time,  \* Baidu engines: self.current_time (time of issue)
    language,      \* GoogleTTS: self.language
    tmpfiles,      \* number of temporary files left on disk by say
    last,          \* engine run: the last call on the instance and its outcome
    api_key,       \* GoogleSTT: self._api_key
    stt_language,  \* GoogleSTT: self._language
    request_url,   \* GoogleSTT: self._request_url
    heard,         \* GoogleSTT: the last transcribe call and its outcome
    cache,         \* BaiduTTS: the cache files that exist under CONFIG_PATH
    says,          \* TTS engines: the last two calls of say, newest first
    env,           \* probes: the executables, libraries and network present
    lastProbe,     \* probes: the last is_available() call and its answer
    profile,       \* construction: profile.yml, the keys it holds
    hmm_dir,       \* construction: what exists at PocketSphinxSTT's hmm_dir
    lastBuild,     \* construction: the last get_instance / constructor call
    pc,            \* concurrent get_token: where each caller is
    got,           \* concurrent get_token: the answer each caller holds
    seen           \* concurrent get_token: the fields each caller has read

selVars == <<module, classes, setOrder, available, lastCall>>

tokenVars == <<access_token, expires_in, current_time>>

runVars == <<instance, now, access_token, expires_in, current_time, language,
             tmpfiles, last>>

googleVars == <<api_key, stt_language, request_url, heard>>

ttsVars == <<cache, says>>

probeVars == <<env, lastProbe>>

buildVars == <<profile, hmm_dir, lastBuild>>

concVars == <<pc, got, seen>>

extVars == <<api_key, stt_language, request_url, heard, cache, says, env, lastProbe,
             profile, hmm_dir, lastBuild, pc, got, seen>>

vars == <<module, classes, setOrder, available, lastCall,
          instance, now, access_token, expires_in, current_time, language,
          tmpfiles, last,
          api_key, stt_language, request_url, heard, cache, says, env,
          lastProbe, profile, hmm_dir, lastBuild, pc, got, seen>>

-----------------------------------------------------------------------------
(* Bounds *)

\* Largest number of engine subclasses defined in one module.
MaxEngines == 3

\* The clock takes the values 0..Window and 3568..3568+Window.
Window == 2

\* Longest time, in seconds, a token request takes.
MaxLatency == 1

\* Most temporary files that are left on disk before the run stops leaking.
MaxTmpFiles == 2

-----------------------------------------------------------------------------
(* The parts of the state a specification does not follow stay as below. *)

\* No GoogleSTT instance is followed.
GoogleIdle ==
    api_key = "" /\ stt_language = "" /\ request_url = <<>> /\ heard = <<>>

\* No cache file exists and say was not called.
TtsIdle == cache = {} /\ says = <<>>

\* No probe was called.
ProbeIdle == env = {} /\ lastProbe = <<>>

\* No engine is being constructed.
BuildIdle == profile = <<>> /\ hmm_dir = {} /\ lastBuild = <<>>

\* No caller is inside get_token.
ConcIdle == pc = <<>> /\ got = <<>> /\ seen = <<>>

ExtIdle == GoogleIdle /\ TtsIdle /\ ProbeIdle /\ BuildIdle /\ ConcIdle

-----------------------------------------------------------------------------
(* Engine instances: the Baidu token, transcribe and say *)

\* The engines whose instances are followed: SLUG of PocketSphinxSTT,
\* JuliusSTT, BaiduSTT, GoogleTTS and BaiduTTS.
Engines == {"sphinx", "julius", "baidu-stt", "google-tts", "baidu-tts"}

BaiduEngines == {"baidu-stt", "baidu-tts"}

\* Python's None as a list element or a result.
None == "<None>"

\* Values of int(time.time()) the clock takes.
TimePoints == (0..Window) \cup {3568 + k : k \in 0..Window}

\* The seconds subtracted from the expiry time in get_token.
Skew == 30

\* Tokens and lifetimes the token endpoint answers with.
TokenValues == {"tokA", "tokB"}

ExpiresValues == {31, 3600}

\* Answers to the token request: no answer (requests.get raises), a
\* non-2xx status, a 2xx body that is not JSON, a 2xx JSON object with or
\* without the keys access_token and expires_in.
TokenResponses ==
    {[kind |-> k, has_token |-> FALSE, token |-> "", has_expires |-> FALSE,
      expires |-> 0] : k \in {"network_error", "http_error", "not_json", "json"}}
    \cup {[kind |-> "json", has_token |-> FALSE, token |-> "",
           has_expires |-> TRUE, expires |-> e] : e \in ExpiresValues}
    \cup {[kind |-> "json", has_token |-> TRUE, token |-> t,
           has_expires |-> FALSE, expires |-> 0] : t \in TokenValues}
    \cup {[kind |-> "json", has_token |-> TRUE, token |-> t,
           has_expires |-> TRUE, expires |-> e] :
             t \in TokenValues, e \in ExpiresValues}

NoResponse == [kind |-> "none", has_token |-> FALSE, token |-> "",
               has_expires |-> FALSE, expires |-> 0]

\* The token fields of the instance, as a record.
Token == [access_token |-> access_token, expires_in |-> expires_in,
          current_time |-> current_time]

\* __init__: access_token = '', expires_in = 0, current_time = 0
FreshToken == [access_token |-> "", expires_in |-> 0, current_time |-> 0]

\* if self.current_time + self.expires_in - 30 > int(time.time()): return
token_valid_ge(tok, t) == tok.current_time + tok.expires_in - Skew >= t

token_valid_skew29(tok, t) == tok.current_time + tok.expires_in - 29 > t

token_valid(tok, t) == tok.current_time + tok.expires_in - Skew > t

\* get_token(): tok are the fields before the call, t the clock when the
\* expiry is checked, resp the endpoint's answer, t2 the clock when the
\* issue time is recorded.  Gives the fields after the call, whether a
\* request was sent, and the exception that leaves get_token ("" if none).
\* Only HTTPError is caught: a failed connection raises from requests.get,
\* a body that is not JSON raises ValueError from r.json(), a missing key
\* raises KeyError at the assignment that reads it.
get_token(tok, t, resp, t2) ==
    IF token_valid(tok, t)
    THEN [tok |-> tok, sent |-> FALSE, raised |-> ""]
    ELSE CASE resp.kind = "network_error" ->
                [tok |-> tok, sent |-> TRUE, raised |-> "ConnectionError"]
           [] resp.kind = "http_error" ->
                [tok |-> tok, sent |-> TRUE, raised |-> ""]
           [] resp.kind = "not_json" ->
                [tok |-> tok, sent |-> TRUE, raised |-> "ValueError"]
           [] resp.kind = "json" /\ ~resp.has_token ->
                [tok |-> tok, sent |-> TRUE, raised |-> "KeyError"]
           [] resp.kind = "json" /\ resp.has_token /\ ~resp.has_expires ->
                [tok |-> [tok EXCEPT !.access_token = resp.token],
                 sent |-> TRUE, raised |-> "KeyError"]
           [] OTHER ->
                [tok |-> [access_token |-> resp.token,
                          expires_in |-> resp.expires,
                          current_time |-> t2],
                 sent |-> TRUE, raised |-> ""]

\* The token request got its access_token and expires_in.
TokenRequestSucceeded(resp) ==
    resp.kind = "json" /\ resp.has_token /\ resp.has_expires

\* Clock values a call that started at t can read later on.
Later(t) == {t2 \in TimePoints : t <= t2 /\ t2 <= t + MaxLatency}

\* str.upper() on the texts the recognizers answer with.
Upper(s) == CASE s = "hello"   -> "HELLO"
              [] s = "ni hao"  -> "NI HAO"
              [] s = "hallo"   -> "HALLO"
              [] s = "world"   -> "WORLD"
              [] s = "word"    -> "WORD"
              [] OTHER         -> s

\* What fp is for wave.open: an open WAVE file, the path of a WAVE file, a
\* path that cannot be opened, data that does not start as a WAVE file, an
\* empty file (or one shorter than its headers), or a WAVE file cut inside
\* the fmt chunk.
WavInputs == {"wav", "wav_path", "ioerror", "not_wave", "empty", "truncated"}

\* wave.open(fp, 'rb'): the exception it raises, "" when it gives a reader.
wave_open(fp) ==
    CASE fp = "ioerror"   -> "IOError"
      [] fp = "not_wave"  -> "wave.Error"
      [] fp = "empty"     -> "EOFError"
      [] fp = "truncated" -> "struct.error"
      [] OTHER            -> ""

\* fp.read(): a path (a str) has no read method.
fp_read(fp) == IF fp = "wav_path" THEN "AttributeError" ELSE ""

\* Answers of http://vop.baidu.com/server_api: no answer, a non-2xx
\* status, a body that is not JSON, a JSON object without 'result', with
\* an empty 'result' list, or with one recognised text.
SttResponses ==
    {[kind |-> k, text |-> ""] :
        k \in {"network_error", "http_error", "not_json", "no_result",
               "empty_result"}}
    \cup {[kind |-> "result", text |-> x] : x \in {"hello", ""}}

\* No POST is made (get_token raised).
NoApiCall == [kind |-> "none", text |-> ""]

\* BaiduSTT.transcribe, after get_token: the POST and the parsing of its
\* answer.  The POST is outside the try block; the handlers catch
\* HTTPError, RequestException, ValueError and KeyError.
baidu_recognize(resp) ==
    CASE resp.kind = "network_error" ->
            [raised |-> "ConnectionError", result |-> <<>>]
      [] resp.kind \in {"http_error", "not_json", "no_result"} ->
            [raised |-> "", result |-> <<>>]
      [] resp.kind = "empty_result" ->
            [raised |-> "IndexError", result |-> <<>>]
      [] OTHER ->
            [raised |-> "",
             result |-> IF resp.text # "" THEN <<Upper(resp.text)>> ELSE <<>>]

\* GoogleTTS.languages
languages ==
    {"af", "sq", "ar", "hy", "ca", "zh-CN", "zh-TW", "hr", "cs", "da", "nl",
     "en", "eo", "fi", "fr", "de", "el", "ht", "hi", "hu", "is", "id", "it",
     "ja", "ko", "la", "lv", "mk", "no", "pl", "pt", "ro", "ru", "sr", "sk",
     "es", "sw", "sv", "ta", "th", "tr", "vi", "cy"}

\* Values of the 'language' option GoogleTTS is constructed with.
LanguageOptions == {"en", "zh-CN", "xx"}

\* The record of a call on the instance.
Call(op, at, before, called, sent, resp, raised, result) ==
    [op |-> op, at |-> at, before |-> before, called |-> called,
     sent |-> sent, resp |-> resp, raised |-> raised, result |-> result,
     upstream |-> "none"]

\* The record of a transcribe call, with what the recognizer or API gave:
\* "result", "no_result" (it recognised nothing) or "error".
CallUp(c, upstream) == [c EXCEPT !.upstream = upstream]

\* What the Baidu API's answer amounts to.
baidu_upstream(api) ==
    CASE api.kind \in {"no_result", "empty_result"} -> "no_result"
      [] api.kind = "result" -> "result"
      [] OTHER -> "error"

\* The (index, text) pairs JuliusSTT's pattern finds in the output of
\* julius: none, one sentence, or two sentences listed out of order.
JuliusOutputs ==
    {<<>>, <<[i |-> 1, text |-> "HELLO"]>>,
     <<[i |-> 2, text |-> "WORLD"], [i |-> 1, text |-> "HELLO"]>>}

\* sorted(results, key=lambda x: x[0])
RECURSIVE sorted_by_index(_)
sorted_by_index(results) ==
    IF results = <<>> THEN <<>>
    ELSE LET m == CHOOSE a \in DOMAIN results :
                    \A b \in DOMAIN results :
                        \/ results[a].i < results[b].i
                        \/ (results[a].i = results[b].i /\ a <= b)
             rest == [k \in 1..(Len(results) - 1) |->
                        IF k < m THEN results[k] ELSE results[k + 1]]
         IN  <<results[m]>> \o sorted_by_index(rest)

\* JuliusSTT.transcribe: the texts in index order; [''] when there is none.
julius_transcribed(results) ==
    LET srt == sorted_by_index(results)
        transcribed == [k \in 1..Len(srt) |-> srt[k].text]
    IN  IF transcribed = <<>> THEN <<"">> ELSE transcribed

NoOp == Call("none", 0, FreshToken, FALSE, FALSE, NoResponse, "", <<>>)

\* The variables of the engine run while the selector is followed.
RunIdle ==
    /\ instance = "none"
    /\ now = 0
    /\ access_token = ""
    /\ expires_in = 0
    /\ current_time = 0
    /\ language = ""
    /\ tmpfiles = 0
    /\ last = NoOp

\* The state after get_instance(): a constructed instance of one engine.
Init ==
    /\ instance \in Engines
    /\ now \in {0, 1}
    /\ access_token = FreshToken.access_token
    /\ expires_in = FreshToken.expires_in
    /\ current_time = FreshToken.current_time
    /\ language \in (IF instance = "google-tts" THEN LanguageOptions ELSE {""})
    /\ tmpfiles = 0
    /\ last = NoOp
    /\ module = "stt"
    /\ classes = <<>>
    /\ setOrder = <<>>
    /\ available = {}
    /\ lastCall = [slug |-> [type |-> "NoneType", val |-> ""], made |-> FALSE,
                   out |-> [kind |-> "raise", exc |-> "", msg |-> "",
                            engine |-> 0, enumerated |-> FALSE,
                            warned |-> FALSE, probed |-> {}]]
    /\ ExtIdle

\* Time passes between calls.
Tick ==
    /\ \E t \in TimePoints : t > now /\ now' = t
    /\ UNCHANGED <<instance, access_token, expires_in, current_time, language,
                   tmpfiles, last>>
    /\ UNCHANGED selVars
    /\ UNCHANGED extVars

\* A call of get_token() on a Baidu engine instance.  An endpoint answer
\* and a second clock reading exist only when the request is sent.
GetToken ==
    /\ instance \in BaiduEngines
    /\ \E resp \in (IF token_valid(Token, now) THEN {NoResponse}
                    ELSE TokenResponses),
          t2 \in (IF token_valid(Token, now) THEN {now} ELSE Later(now)) :
         LET r == get_token(Token, now, resp, t2)
         IN  /\ access_token' = r.tok.access_token
             /\ expires_in' = r.tok.expires_in
             /\ current_time' = r.tok.current_time
             /\ now' = t2
             /\ last' = Call("get_token", now, Token, TRUE, r.sent, resp,
                             r.raised, <<>>)
    /\ UNCHANGED <<instance, language, tmpfiles>>
    /\ UNCHANGED selVars
    /\ UNCHANGED extVars

\* BaiduSTT.transcribe(fp): wave.open, get_token, the POST and its answer.
\* IOError from wave.open is caught and gives []; what else wave.open
\* raises (wave.Error, EOFError, struct.error) is not caught.
\* get_token and the POST are outside the try block, so what they raise
\* leaves transcribe.
BaiduSTT_transcribe ==
    /\ instance = "baidu-stt"
    /\ \E wav \in WavInputs :
         IF wave_open(wav) # ""
         THEN /\ last' = Call("transcribe", now, Token, FALSE, FALSE,
                              NoResponse,
                              IF wave_open(wav) = "IOError" THEN ""
                              ELSE wave_open(wav),
                              <<>>)
              /\ UNCHANGED <<now, access_token, expires_in, current_time>>
         ELSE \E resp \in (IF token_valid(Token, now) THEN {NoResponse}
                           ELSE TokenResponses),
                 t2 \in (IF token_valid(Token, now) THEN {now} ELSE Later(now)) :
                LET r == get_token(Token, now, resp, t2)
                IN  /\ access_token' = r.tok.access_token
                    /\ expires_in' = r.tok.expires_in
                    /\ current_time' = r.tok.current_time
                    /\ now' = t2
                    /\ \E api \in (IF r.raised # "" THEN {NoApiCall}
                                   ELSE SttResponses) :
                         LET a == baidu_recognize(api)
                         IN  last' = CallUp(
                                       Call("transcribe", now, Token, TRUE,
                                            r.sent, resp,
                                            IF r.raised # "" THEN r.raised
                                            ELSE a.raised,
                                            IF r.raised # "" THEN <<>>
                                            ELSE a.result),
                                       IF r.raised # "" THEN "none"
                                       ELSE baidu_upstream(api))
    /\ UNCHANGED <<instance, language, tmpfiles>>
    /\ UNCHANGED selVars
    /\ UNCHANGED extVars

\* PocketSphinxSTT.transcribe(fp): the decoder's get_hyp() gives a tuple
\* whose first element is the hypothesis, None when there is none.
PocketSphinxSTT_transcribe ==
    /\ instance = "sphinx"
    /\ \E hyp \in {None, "HELLO"} :
         last' = CallUp(Call("transcribe", now, Token, FALSE, FALSE,
                             NoResponse, "", <<hyp>>),
                        IF hyp = None THEN "no_result" ELSE "result")
    /\ UNCHANGED <<instance, now, access_token, expires_in, current_time,
                   language, tmpfiles>>
    /\ UNCHANGED selVars
    /\ UNCHANGED extVars

\* JuliusSTT.transcribe(fp): subprocess.call raises OSError when julius
\* cannot be started; otherwise the sentences of its output are returned.
JuliusSTT_transcribe ==
    /\ instance = "julius"
    /\ \E julius \in {"ok", "julius_missing"} :
         IF julius = "julius_missing"
         THEN last' = Call("transcribe", now, Token, FALSE, FALSE,
                           NoResponse, "OSError", <<>>)
         ELSE \E out \in JuliusOutputs :
                last' = CallUp(Call("transcribe", now, Token, FALSE, FALSE,
                                    NoResponse, "", julius_transcribed(out)),
                               IF out = <<>> THEN "no_result" ELSE "result")
    /\ UNCHANGED <<instance, now, access_token, expires_in, current_time,
                   language, tmpfiles>>
    /\ UNCHANGED selVars
    /\ UNCHANGED extVars

\* GoogleTTS.say(phrase): the language check, gTTS(...).save(tmpfile),
\* play_mp3(tmpfile), os.remove(tmpfile).  save raises when the request
\* fails; subprocess.call raises OSError when aplay cannot be started; a
\* failing aplay (non-zero exit) does not raise.  The file is removed only
\* on the path that reaches os.remove.
GoogleTTS_say ==
    /\ instance = "google-tts"
    /\ \E save \in {"ok", "network_error"},
          play \in {"ok", "aplay_fails", "aplay_missing"} :
         LET raised == IF language \notin languages THEN "ValueError"
                       ELSE IF save = "network_error" THEN "ConnectionError"
                       ELSE IF play = "aplay_missing" THEN "OSError"
                       ELSE ""
             leaked == language \in languages /\ raised # ""
         IN  /\ leaked => tmpfiles < MaxTmpFiles
             /\ tmpfiles' = IF leaked THEN tmpfiles + 1 ELSE tmpfiles
             /\ last' = Call("say", now, Token, FALSE, FALSE, NoResponse,
                             raised, <<>>)
    /\ UNCHANGED <<instance, now, access_token, expires_in, current_time,
                   language>>
    /\ UNCHANGED selVars
    /\ UNCHANGED extVars

Next ==
    \/ Tick
    \/ GetToken
    \/ BaiduSTT_transcribe
    \/ PocketSphinxSTT_transcribe
    \/ JuliusSTT_transcribe
    \/ GoogleTTS_say

Spec == Init /\ [][Next]_vars

-----------------------------------------------------------------------------
(* Engine registry and selector: stt.py 544-581, tts.py 376-412 *)

Modules == {"stt", "tts"}

\* SLUG values a subclass may carry; "" stands for a class without a SLUG
\* attribute or with a falsy one (the abstract bases).
SlugPool(m) == IF m = "stt" THEN {"", "sphinx", "google"}
                            ELSE {"", "espeak-tts", "google-tts"}

\* A Python value passed as slug: its type and (as text) its value.
PyStr(s)     == [type |-> "str", val |-> s]
PyUnicode(s) == [type |-> "unicode", val |-> s]
PyNone       == [type |-> "NoneType", val |-> ""]
PyInt(s)     == [type |-> "int", val |-> s]

SlugInputs(m) ==
    {PyStr(s) : s \in SlugPool(m) \cup {"nosuch"}}
        \cup {PyUnicode(s) : s \in (SlugPool(m) \ {""})}
        \cup {PyNone, PyInt("0"), PyInt("7")}

\* Python truth value of a slug argument: None, '', u'' and 0 are falsy.
Truthy(v) ==
    CASE v.type = "NoneType" -> FALSE
      [] v.type = "int"      -> v.val # "0"
      [] OTHER               -> v.val # ""

\* All permutations of 1..n, as sequences.
Perms(n) == {p \in [1..n -> 1..n] : \A i, j \in 1..n : i # j => p[i] # p[j]}

\* hasattr(engine, 'SLUG') and engine.SLUG
HasSlug(c) == classes[c] # ""

\* get_engines(): list(get_subclasses(Abstract...Engine)) filtered on SLUG.
\* The subclasses are collected in a set; the list has the set's order.
get_engines == SelectSeq(setOrder, HasSlug)

\* filter(lambda engine: hasattr(engine, "SLUG") and engine.SLUG == slug, ...)
selected_engines_nofilter(slug) == get_engines

selected_engines(slug) ==
    LET Match(c) == HasSlug(c) /\ classes[c] = slug.val
    IN  SelectSeq(get_engines, Match)

\* if not slug or type(slug) is not str
invalid_slug_notype(slug) == ~Truthy(slug)

invalid_slug(slug) == ~Truthy(slug) \/ slug.type # "str"

\* The duplicate warning.  stt.py formats the whole message with % slug;
\* tts.py applies % slug to the second literal only, which has no
\* conversion specifier, so evaluating the argument of print raises
\* TypeError before anything is printed.
warning_raises(m) == m = "tts"

Raise(exc, msg, enumerated, warned, probed) ==
    [kind |-> "raise", exc |-> exc, msg |-> msg, engine |-> 0,
     enumerated |-> enumerated, warned |-> warned, probed |-> probed]

Return(engine, warned) ==
    [kind |-> "return", exc |-> "", msg |-> "", engine |-> engine,
     enumerated |-> TRUE, warned |-> warned, probed |-> {engine}]

\* is_available() of the chosen candidate.
probe_always_true(engine) == TRUE

probe(engine) == engine \in available

\* get_engine_by_slug(slug) of module m: the outcome of the call.
get_engine_by_slug(m, slug) ==
    IF invalid_slug(slug)
    THEN Raise("TypeError", "Invalid slug", FALSE, FALSE, {})
    ELSE LET sel == selected_engines(slug)
         IN  IF Len(sel) = 0
             THEN Raise("ValueError", "No engine found for slug", TRUE, FALSE, {})
             ELSE IF Len(sel) > 1 /\ warning_raises(m)
             THEN Raise("TypeError", "not all arguments converted",
                        TRUE, FALSE, {})
             ELSE LET engine == sel[1]
                  IN  IF ~probe(engine)
                      THEN Raise("ValueError", "engine is not available",
                                 TRUE, Len(sel) > 1, {engine})
                      ELSE Return(engine, Len(sel) > 1)

NoCall == [slug |-> PyNone, made |-> FALSE,
           out |-> Raise("", "", FALSE, FALSE, {})]

SelectInit ==
    /\ module \in Modules
    /\ \E n \in 0..MaxEngines :
         /\ classes \in [1..n -> SlugPool(module)]
         /\ setOrder \in Perms(n)
         /\ available \in SUBSET (1..n)
    /\ lastCall = NoCall
    /\ RunIdle
    /\ ExtIdle

\* One call of get_engine_by_slug with any argument.
SelectEngine ==
    /\ \E slug \in SlugInputs(module) :
         lastCall' = [slug |-> slug, made |-> TRUE,
                      out |-> get_engine_by_slug(module, slug)]
    /\ UNCHANGED <<module, classes, setOrder, available>>
    /\ UNCHANGED runVars
    /\ UNCHANGED extVars

SelectNext == SelectEngine

SelectSpec == SelectInit /\ [][SelectNext]_vars

-----------------------------------------------------------------------------
(* Selector claims *)

\* The argument of the last call passed the argument check.
ValidSlug(call) == call.made /\ ~invalid_slug(call.slug)

\* The classes registered under the slug of the call (SLUG == slug).
Matching(call) == {c \in DOMAIN classes : HasSlug(c) /\ classes[c] = call.slug.val}

\* The first class in definition (registration) order among a set of classes.
FirstRegistered(S) == CHOOSE c \in S : \A d \in S : c <= d

IsNotFound(out) ==
    out.kind = "raise" /\ out.exc = "ValueError" /\ out.msg = "No engine found for slug"

IsUnavailable(out) ==
    out.kind = "raise" /\ out.exc = "ValueError" /\ out.msg = "engine is not available"

IsInvalidSelector(out) ==
    out.kind = "raise" /\ out.exc = "TypeError" /\ out.msg = "Invalid slug"

\* C1: a call with a non-empty str slug that is the SLUG of no registered
\* engine raises the not-found error (ValueError "No ... engine found for
\* slug") and nothing else; no is_available() probe runs and no engine is
\* returned.
C1_UnknownSlugNotFound ==
    (lastCall.made /\ lastCall.slug.type = "str" /\ lastCall.slug.val # ""
        /\ Matching(lastCall) = {})
    => (IsNotFound(lastCall.out) /\ lastCall.out.probed = {}
        /\ lastCall.out.engine = 0)

C1_Witness ==
    /\ lastCall.made /\ lastCall.slug = PyStr("nosuch")
    /\ Len(get_engines) >= 2
    /\ IsNotFound(lastCall.out)

\* C2 as stated: for every registered engine whose probe returns false, a
\* call of the STT selector with that engine's slug raises the unavailable
\* error and returns no engine.
C2_AsStated ==
    (module = "stt" /\ ValidSlug(lastCall))
    => \A c \in Matching(lastCall) :
         c \notin available
         => (IsUnavailable(lastCall.out) /\ lastCall.out.engine = 0)

\* C2 (amended): for every registered engine whose probe returns false and
\* whose SLUG no other registered engine carries, a call with that slug
\* (STT and TTS) raises the unavailable error (ValueError "... is not
\* available"), after probing that engine only, and returns no engine.
C2_UnavailableRejected ==
    (ValidSlug(lastCall) /\ Cardinality(Matching(lastCall)) = 1)
    => \A c \in Matching(lastCall) :
         c \notin available
         => (IsUnavailable(lastCall.out) /\ lastCall.out.probed = {c}
             /\ lastCall.out.engine = 0)

C2_Witness ==
    /\ module = "stt" /\ lastCall.made /\ lastCall.slug = PyStr("google")
    /\ Cardinality(Matching(lastCall)) = 1
    /\ Matching(lastCall) \cap available = {}
    /\ IsUnavailable(lastCall.out)

\* The call found no engine for its slug.
NotFoundCase(call) == ValidSlug(call) /\ Matching(call) = {}

\* The call probed a registered engine and the probe reported unavailable.
UnavailableCase(call) ==
    /\ ValidSlug(call) /\ call.out.probed # {}
    /\ call.out.probed \cap available = {}

\* C3: the error raised when no engine matches the slug is of a different
\* kind (exception class) from the error raised when the engine exists and
\* its probe reports unavailable: for a not-found call followed by an
\* unavailable call, the two exception classes differ.
C3_DistinctErrorKinds ==
    [][(NotFoundCase(lastCall) /\ UnavailableCase(lastCall'))
        => lastCall.out.exc # lastCall'.out.exc]_vars

\* C4: a call with an empty slug, None, or a value whose type is not str
\* raises the invalid-selector error (TypeError "Invalid slug") before
\* get_engines() is evaluated and before any probe runs.
C4_InvalidSelector ==
    (lastCall.made /\ (~Truthy(lastCall.slug) \/ lastCall.slug.type # "str"))
    => (IsInvalidSelector(lastCall.out) /\ ~lastCall.out.enumerated
        /\ lastCall.out.probed = {})

C4_Witness ==
    /\ lastCall.made /\ lastCall.slug = PyInt("7")
    /\ Len(get_engines) >= 1
    /\ IsInvalidSelector(lastCall.out)

\* C5: when more than one registered engine carries the requested slug,
\* the call probes, and returns if available, the one that comes first in
\* registration order.
C5_FirstRegisteredChosen ==
    (ValidSlug(lastCall) /\ Cardinality(Matching(lastCall)) > 1)
    => /\ lastCall.out.probed = {FirstRegistered(Matching(lastCall))}
       /\ (lastCall.out.kind = "return"
            => lastCall.out.engine = FirstRegistered(Matching(lastCall)))

\* C6: when more than one registered engine carries the requested slug,
\* the call emits the warning, goes on to the availability probe and
\* returns the probed engine when it is available; it fails only when the
\* probe reports unavailable.
C6_DuplicateOnlyWarns ==
    (ValidSlug(lastCall) /\ Cardinality(Matching(lastCall)) > 1)
    => /\ lastCall.out.warned
       /\ lastCall.out.probed # {}
       /\ (lastCall.out.kind = "raise" => IsUnavailable(lastCall.out))
       /\ (lastCall.out.probed \cap available # {}
            => lastCall.out.kind = "return")

-----------------------------------------------------------------------------
(* Token and engine-call claims *)

\* C7 as stated: with expires_in = 3600 and issue time T, get_token at
\* T+3569 sends a token request, and get_token at T+3568 sends none and
\* leaves the token fields as they were.
C7_AsStated ==
    (last.called /\ last.before.expires_in = 3600)
    => /\ (last.at = last.before.current_time + 3569 => last.sent)
       /\ (last.at = last.before.current_time + 3568
            => (~last.sent /\ Token = last.before))

\* C7 (amended): with expires_in = 3600 and issue time T, get_token at
\* T+3570 (30 s remaining) sends a token request, and get_token at T+3569
\* sends none and leaves the token fields as they were.
C7_RefreshBoundary ==
    (last.called /\ last.before.expires_in = 3600)
    => /\ (last.at = last.before.current_time + 3570 => last.sent)
       /\ (last.at = last.before.current_time + 3569
            => (~last.sent /\ Token = last.before))

C7_Witness ==
    /\ last.op = "get_token" /\ last.before.expires_in = 3600
    /\ last.before.access_token # ""
    /\ last.at = last.before.current_time + 3570
    /\ last.sent

\* C8: get_token sends a token request exactly when the clock has reached
\* issue time + expires_in - 30; otherwise it sends none and leaves
\* access_token, expires_in and current_time as they were.  On a freshly
\* constructed instance (no token, expires_in 0, issue time 0) the first
\* call that reaches get_token sends a request.
C8_RefreshIffExpired ==
    last.called
    => /\ (last.sent <=>
             last.at >= last.before.current_time + last.before.expires_in - 30)
       /\ (~last.sent => Token = last.before)
       /\ (last.before = FreshToken => last.sent)

C8_Witness ==
    /\ last.op = "transcribe" /\ last.called /\ ~last.sent
    /\ last.before.access_token = "tokA"
    /\ last.at > last.before.current_time
    /\ Token = last.before

\* C9: when the token request fails (no connection, a non-2xx status, a
\* body that is not JSON or lacks access_token or expires_in), the three
\* token fields hold the values they had before the call.
C9_FailedRefreshNoOp ==
    (last.called /\ last.sent /\ ~TokenRequestSucceeded(last.resp))
    => Token = last.before

\* C10: no call of transcribe or say on a constructed instance raises.
C10_CallsNeverRaise ==
    last.op \in {"transcribe", "say"} => last.raised = ""

-----------------------------------------------------------------------------
(* GoogleSTT: the request URL and transcribe *)

\* The selector is not followed.
SelIdle ==
    /\ module = "stt"
    /\ classes = <<>>
    /\ setOrder = <<>>
    /\ available = {}
    /\ lastCall = [slug |-> [type |-> "NoneType", val |-> ""], made |-> FALSE,
                   out |-> [kind |-> "raise", exc |-> "", msg |-> "",
                            engine |-> 0, enumerated |-> FALSE,
                            warned |-> FALSE, probed |-> {}]]

\* Most JSON documents in one response body.
MaxDocs == 3

\* Values assigned to api_key and to language.
ApiKeyValues == {None, "", "keyA", "keyB"}
SttLanguageValues == {None, "", "en-us", "de-de"}

\* `if self.api_key and self.language`: None and '' are false.
Nonempty(v) == v # None /\ v # ""

\* urlparse.urlunparse(('https', 'www.google.com',
\* '/speech-api/v2/recognize', '', urllib.urlencode({...}), ''))
Url(key, lang) ==
    [scheme |-> "https", netloc |-> "www.google.com",
     path |-> "/speech-api/v2/recognize", output |-> "json",
     client |-> "chromium", key |-> key, lang |-> lang,
     maxresults |-> "6", pfilter |-> "2"]

\* self._request_url = None
NoUrl ==
    [scheme |-> "", netloc |-> "", path |-> "", output |-> "", client |-> "",
     key |-> None, lang |-> None, maxresults |-> "", pfilter |-> ""]

\* _regenerate_request_url without the test of language.
regenerate_request_url_keyonly(key, lang) ==
    IF Nonempty(key) THEN Url(key, lang) ELSE NoUrl

\* GoogleSTT._regenerate_request_url, from the fields it reads.
regenerate_request_url(key, lang) ==
    IF Nonempty(key) /\ Nonempty(lang) THEN Url(key, lang) ELSE NoUrl

\* GoogleSTT.__init__(api_key, language): the three fields are None, then
\* self.language = language and self.api_key = api_key run their setters.
GoogleSTT_init(key, lang) ==
    LET f0 == [api_key |-> None, language |-> None, request_url |-> NoUrl]
        f1 == [f0 EXCEPT !.language = lang,
                         !.request_url =
                             regenerate_request_url(f0.api_key, lang)]
        f2 == [f1 EXCEPT !.api_key = key,
                         !.request_url =
                             regenerate_request_url(key, f1.language)]
    IN  f2

\* JSON documents of a response body.  'result' is the list of results, each
\* the list of the transcripts of its alternatives.
DocEmpty == [has_result |-> TRUE, result |-> <<>>]
DocHello == [has_result |-> TRUE, result |-> << <<"hello", "hallo">> >>]
DocWorld == [has_result |-> TRUE, result |-> << <<"world">>, <<"word">> >>]
DocNoResult == [has_result |-> FALSE, result |-> <<>>]
Docs == {DocEmpty, DocHello, DocWorld, DocNoResult}

\* r.text: 1..MaxDocs documents separated by newlines.
Bodies == UNION {[1..n -> Docs] : n \in 1..MaxDocs}

\* text.split('\n', 1): the text up to the first newline and the text after
\* it; the whole text when it has no newline.  A piece is the sequence of
\* the documents it holds.
split_once(body) ==
    IF Len(body) >= 2 THEN << <<Head(body)>>, Tail(body) >> ELSE <<body>>

\* json.loads(piece): the document, or ValueError when the text holds more
\* than one document ("Extra data").
json_loads(piece) ==
    IF Len(piece) = 1 THEN [ok |-> TRUE, doc |-> piece[1]]
    ELSE [ok |-> FALSE, doc |-> DocNoResult]

\* Lines 404-424: the results of a response with a 2xx status.
google_results(body) ==
    LET pieces == split_once(body)
        parsed == json_loads(pieces[Len(pieces)])
        response == parsed.doc
    IN  IF ~parsed.ok THEN <<>>
        ELSE IF ~response.has_result THEN <<>>
        ELSE IF Len(response.result) = 0 THEN <<>>
        ELSE [k \in 1..Len(response.result[1]) |->
                 Upper(response.result[1][k])]

\* What a transcribe call did.
Heard(wav, http, body, url, raised, result) ==
    [op |-> "transcribe", wav |-> wav, http |-> http, body |-> body,
     url |-> url, raised |-> raised, result |-> result]

\* Outcomes of self._http.post and r.raise_for_status().
HttpOutcomes == {"ok", "http_error", "network_error"}

GoogleInit ==
    /\ \E key \in ApiKeyValues, lang \in SttLanguageValues :
         LET f == GoogleSTT_init(key, lang)
         IN  /\ api_key = f.api_key
             /\ stt_language = f.language
             /\ request_url = f.request_url
    /\ heard = <<>>
    /\ SelIdle /\ RunIdle
    /\ TtsIdle /\ ProbeIdle /\ BuildIdle /\ ConcIdle

\* language.setter
GoogleSTT_set_language ==
    /\ \E value \in SttLanguageValues :
         /\ stt_language' = value
         /\ request_url' = regenerate_request_url(api_key, value)
    /\ UNCHANGED <<api_key, heard>>
    /\ UNCHANGED <<selVars, runVars, ttsVars, probeVars, buildVars, concVars>>

\* api_key.setter
GoogleSTT_set_api_key ==
    /\ \E value \in ApiKeyValues :
         /\ api_key' = value
         /\ request_url' = regenerate_request_url(value, stt_language)
    /\ UNCHANGED <<stt_language, heard>>
    /\ UNCHANGED <<selVars, runVars, ttsVars, probeVars, buildVars, concVars>>

\* GoogleSTT.transcribe(fp): the tests of api_key and language, wave.open
\* and fp.read() outside any try, the POST and the parsing of its answer.
GoogleSTT_transcribe ==
    /\ IF ~Nonempty(api_key) \/ ~Nonempty(stt_language)
       THEN heard' = Heard("", "", <<>>, request_url, "", <<>>)
       ELSE \E wav \in WavInputs :
              IF wave_open(wav) # ""
              THEN heard' = Heard(wav, "", <<>>, request_url, wave_open(wav),
                                  <<>>)
              ELSE IF fp_read(wav) # ""
              THEN heard' = Heard(wav, "", <<>>, request_url, fp_read(wav),
                                  <<>>)
              ELSE \E http \in HttpOutcomes :
                     CASE http = "network_error" ->
                            heard' = Heard(wav, http, <<>>, request_url,
                                           "ConnectionError", <<>>)
                       [] http = "http_error" ->
                            heard' = Heard(wav, http, <<>>, request_url, "",
                                           <<>>)
                       [] OTHER ->
                            \E body \in Bodies :
                                heard' = Heard(wav, http, body, request_url,
                                               "", google_results(body))
    /\ UNCHANGED <<api_key, stt_language, request_url>>
    /\ UNCHANGED <<selVars, runVars, ttsVars, probeVars, buildVars, concVars>>

GoogleNext ==
    \/ GoogleSTT_set_language
    \/ GoogleSTT_set_api_key
    \/ GoogleSTT_transcribe

GoogleSpec == GoogleInit /\ [][GoogleNext]_vars

\* The transcripts of the first result of the last document of a body.
LastDocTranscripts(body) ==
    LET doc == body[Len(body)]
    IN  [k \in 1..Len(doc.result[1]) |-> Upper(doc.result[1][k])]

\* A transcribe call got a 2xx response whose last document holds a result.
GotTranscripts ==
    /\ heard # <<>>
    /\ heard.http = "ok"
    /\ heard.body[Len(heard.body)].has_result
    /\ Len(heard.body[Len(heard.body)].result) > 0

-----------------------------------------------------------------------------
(* TTS engines: say, the temporary file and the BaiduTTS cache *)

\* SLUG of EspeakTTS, GoogleTTS and BaiduTTS.
TtsEngines == {"espeak-tts", "google-tts", "baidu-tts"}

\* Phrases passed to say.
Phrases == {"hi", "h i", "bye"}

\* phrase.replace(' ', ''): the part of cache_file_path that depends on
\* the phrase.
cache_key(phrase) == IF phrase = "h i" THEN "hi" ELSE phrase

CacheKeys == {cache_key(p) : p \in Phrases}

\* A say that never looks into the cache.
cache_hit_never(flag, phrase, files) == FALSE

\* if cache and os.path.exists(cache_file_path)
cache_hit(flag, phrase, files) == flag /\ cache_key(phrase) \in files

\* Answers to the token request that differ in what get_token does.
TtsTokenResponses ==
    {r \in TokenResponses :
        /\ r.token \in {"", "tokA"}
        /\ r.expires \in {0, 3600}
        /\ r.kind \in {"network_error", "http_error", "json"}
        /\ r.has_expires => r.has_token}

\* Answers of http://tsn.baidu.com/text2audio: no answer, a non-2xx status,
\* audio data (not JSON), or a JSON object whose err_msg is not None.
SpeechResponses == {"network_error", "http_error", "audio", "err_msg"}

\* BaiduTTS.get_speech after get_token: "" stands for None, "raise" for the
\* exception of requests.post, "file" for the temporary file written.
\* raise_for_status and r.json() raise inside `try ... except Exception:
\* pass`, so their failure leads to the file being written.
get_speech_result(answer) ==
    CASE answer = "network_error" -> "raise"
      [] answer = "err_msg"       -> ""
      [] OTHER                    -> "file"

\* What starting aplay gives: it runs, it runs and fails (no exception), or
\* it cannot be started (subprocess.call raises OSError).
PlayOutcomes == {"ok", "aplay_fails", "aplay_missing"}

\* A call of say and what it did: whether the cache file was found,
\* whether get_speech was called, and whether the file was stored in the
\* cache.
Said(phrase, flag, hit, synth, stored) ==
    [phrase |-> phrase, cache |-> flag, hit |-> hit, synth |-> synth,
     stored |-> stored]

\* The last two calls, newest first.
Remember(rec) == <<rec>> \o (IF says = <<>> THEN <<>> ELSE <<says[1]>>)

TtsInit ==
    /\ instance \in TtsEngines
    /\ now = 0
    /\ access_token = FreshToken.access_token
    /\ expires_in = FreshToken.expires_in
    /\ current_time = FreshToken.current_time
    /\ language \in (IF instance = "google-tts" THEN LanguageOptions ELSE {""})
    /\ tmpfiles = 0
    /\ last = NoOp
    /\ cache \in (IF instance = "baidu-tts" THEN SUBSET CacheKeys ELSE {{}})
    /\ says = <<>>
    /\ SelIdle
    /\ GoogleIdle /\ ProbeIdle /\ BuildIdle /\ ConcIdle

\* EspeakTTS.say(phrase): the temporary file is created, espeak writes it,
\* play(fname), os.remove(fname).  subprocess.call raises OSError when
\* espeak or aplay cannot be started.
EspeakTTS_say ==
    /\ instance = "espeak-tts"
    /\ \E phrase \in Phrases, espeak \in {"ok", "espeak_missing"} :
         \E play \in (IF espeak = "ok" THEN PlayOutcomes ELSE {"ok"}) :
            LET raised == espeak = "espeak_missing" \/ play = "aplay_missing"
            IN  /\ raised => tmpfiles < MaxTmpFiles
                /\ tmpfiles' = IF raised THEN tmpfiles + 1 ELSE tmpfiles
                /\ says' = Remember(Said(phrase, FALSE, FALSE, TRUE, FALSE))
    /\ UNCHANGED <<instance, now, access_token, expires_in, current_time,
                   language, last, cache>>
    /\ UNCHANGED <<selVars, googleVars, probeVars, buildVars, concVars>>

\* BaiduTTS.say(phrase, cache): the cache lookup, and on a miss get_speech
\* (get_token, the POST, the temporary file), play_mp3, then os.rename
\* into the cache or os.remove.
BaiduTTS_say ==
    /\ instance = "baidu-tts"
    /\ \E phrase \in Phrases, flag \in BOOLEAN :
         IF cache_hit(flag, phrase, cache)
         THEN /\ \E play \in PlayOutcomes :
                   says' = Remember(Said(phrase, flag, TRUE, FALSE, FALSE))
              /\ UNCHANGED <<now, access_token, expires_in, current_time,
                             tmpfiles, cache>>
         ELSE \E resp \in (IF token_valid(Token, now) THEN {NoResponse}
                           ELSE TtsTokenResponses),
                 t2 \in (IF token_valid(Token, now) THEN {now}
                         ELSE Later(now)) :
                LET r == get_token(Token, now, resp, t2)
                IN  /\ access_token' = r.tok.access_token
                    /\ expires_in' = r.tok.expires_in
                    /\ current_time' = r.tok.current_time
                    /\ now' = t2
                    /\ \E answer \in (IF r.raised # "" THEN {"network_error"}
                                       ELSE SpeechResponses) :
                        \E play \in (IF r.raised = ""
                                         /\ get_speech_result(answer) = "file"
                                      THEN PlayOutcomes ELSE {"ok"}) :
                           LET tmpfile == IF r.raised # "" THEN "raise"
                                          ELSE get_speech_result(answer)
                               played == tmpfile = "file"
                                         /\ play # "aplay_missing"
                               leaked == tmpfile = "file" /\ ~played
                               stored == played /\ flag
                           IN  /\ leaked => tmpfiles < MaxTmpFiles
                               /\ tmpfiles' = IF leaked THEN tmpfiles + 1
                                              ELSE tmpfiles
                               /\ cache' = IF stored
                                           THEN cache \cup {cache_key(phrase)}
                                           ELSE cache
                               /\ says' = Remember(Said(phrase, flag, FALSE,
                                                        TRUE, stored))
    /\ UNCHANGED <<instance, language, last>>
    /\ UNCHANGED <<selVars, googleVars, probeVars, buildVars, concVars>>

\* GoogleTTS.say(phrase), with the call remembered.
GoogleTTS_say_remembered ==
    /\ instance = "google-tts"
    /\ \E phrase \in Phrases, save \in {"ok", "network_error"},
          play \in {"ok", "aplay_fails", "aplay_missing"} :
         LET raised == IF language \notin languages THEN "ValueError"
                       ELSE IF save = "network_error" THEN "ConnectionError"
                       ELSE IF play = "aplay_missing" THEN "OSError"
                       ELSE ""
             leaked == language \in languages /\ raised # ""
         IN  /\ leaked => tmpfiles < MaxTmpFiles
             /\ tmpfiles' = IF leaked THEN tmpfiles + 1 ELSE tmpfiles
             /\ says' = Remember(Said(phrase, FALSE, FALSE,
                                      language \in languages, FALSE))
    /\ UNCHANGED <<instance, now, access_token, expires_in, current_time,
                   language, last, cache>>
    /\ UNCHANGED <<selVars, googleVars, probeVars, buildVars, concVars>>

TtsNext ==
    \/ EspeakTTS_say
    \/ GoogleTTS_say_remembered
    \/ BaiduTTS_say

TtsSpec == TtsInit /\ [][TtsNext]_vars

\* The last two calls were say(phrase, cache=True) on BaiduTTS with phrases
\* of the same cache file.
TwoCachedSays ==
    /\ instance = "baidu-tts"
    /\ Len(says) = 2
    /\ says[1].cache /\ says[2].cache
    /\ cache_key(says[1].phrase) = cache_key(says[2].phrase)

-----------------------------------------------------------------------------
(* Availability probes: is_available of every engine *)

\* What the probes of diagnose look for: executables (check_executable),
\* Python modules (check_python_import) and the network
\* (check_network_connection).
Resources ==
    {"aplay", "espeak", "julius", "mad", "gtts", "pocketsphinx", "network"}

\* SLUG of the engines with an is_available of their own.
ProbedEngines ==
    {"sphinx", "julius", "google", "baidu-stt",
     "dummy-tts", "espeak-tts", "google-tts", "baidu-tts"}

\* AbstractTTSEngine.is_available
tts_is_available(e) == "aplay" \in e

\* AbstractMp3TTSEngine.is_available
mp3_is_available(e) == tts_is_available(e) /\ "mad" \in e

\* cls.is_available() of the engine with the given SLUG, in environment e.
is_available(slug, e) ==
    CASE slug = "sphinx"     -> "pocketsphinx" \in e
      [] slug = "julius"     -> "julius" \in e
      [] slug = "google"     -> "network" \in e
      [] slug = "baidu-stt"  -> "network" \in e
      [] slug = "dummy-tts"  -> TRUE
      [] slug = "espeak-tts" -> tts_is_available(e) /\ "espeak" \in e
      [] slug = "google-tts" -> /\ mp3_is_available(e)
                                /\ "gtts" \in e
                                /\ "network" \in e
      [] slug = "baidu-tts"  -> "network" \in e

ProbeInit ==
    /\ env \in SUBSET Resources
    /\ lastProbe = <<>>
    /\ SelIdle /\ RunIdle
    /\ GoogleIdle /\ TtsIdle /\ BuildIdle /\ ConcIdle

\* A call of cls.is_available().
IsAvailable ==
    /\ \E slug \in ProbedEngines :
         lastProbe' = [engine |-> slug, answer |-> is_available(slug, env)]
    /\ UNCHANGED env
    /\ UNCHANGED <<selVars, runVars, googleVars, ttsVars, buildVars, concVars>>

ProbeNext == IsAvailable

ProbeSpec == ProbeInit /\ [][ProbeNext]_vars

-----------------------------------------------------------------------------
(* Construction: get_config, get_instance and the constructors *)

\* Sub-trees of profile.yml the engines read, and the keys read in each.
Sections ==
    {"pocketsphinx", "julius", "keys", "baidu_api", "espeak-tts",
     "google-tts"}

SectionKeys(section) ==
    CASE section = "pocketsphinx" -> {"hmm_dir"}
      [] section = "julius"       -> {"hmmdefs", "tiedlist"}
      [] section = "keys"         -> {"GOOGLE_SPEECH"}
      [] section = "baidu_api"    -> {"app_key", "app_secret", "persona"}
      [] section = "espeak-tts"   -> {"voice", "pitch_adjustment",
                                      "words_per_minute"}
      [] section = "google-tts"   -> {"language"}
      [] OTHER                    -> {}

\* profile.yml: it does not exist, it is an empty file (yaml.safe_load
\* gives None), or it is a mapping with at most one of the sub-trees.
Profiles ==
    {[kind |-> k, section |-> "", keys |-> {}] :
        k \in {"missing", "empty", "mapping"}}
    \cup UNION {{[kind |-> "mapping", section |-> sec, keys |-> ks] :
                    ks \in SUBSET SectionKeys(sec)} : sec \in Sections}

\* The sub-tree and the keys get_config of an engine reads.
SectionOf(slug) ==
    CASE slug = "sphinx"     -> "pocketsphinx"
      [] slug = "julius"     -> "julius"
      [] slug = "google"     -> "keys"
      [] slug = "baidu-stt"  -> "baidu_api"
      [] slug = "baidu-tts"  -> "baidu_api"
      [] slug = "espeak-tts" -> "espeak-tts"
      [] slug = "google-tts" -> "google-tts"
      [] OTHER               -> ""

OptionsRead(slug) ==
    IF slug = "baidu-stt" THEN {"app_key", "app_secret"}
    ELSE SectionKeys(SectionOf(slug))

\* The constructor argument a profile key is passed as.
ConfigKey(key) == IF key = "GOOGLE_SPEECH" THEN "api_key" ELSE key

\* cls.get_config(): the keyword arguments, or the exception raised.
\* DummyTTS inherits the get_config that returns {} without reading the
\* profile.  On an empty file the profile is None, and subscripting it or
\* testing `in` on it raises TypeError, which no get_config catches.
get_config(slug, p) ==
    IF slug = "dummy-tts" \/ p.kind = "missing"
    THEN [raised |-> "", config |-> {}]
    ELSE IF p.kind = "empty"
    THEN [raised |-> "TypeError", config |-> {}]
    ELSE [raised |-> "",
          config |-> IF p.section = SectionOf(slug)
                     THEN {ConfigKey(k) : k \in p.keys \cap OptionsRead(slug)}
                     ELSE {}]

\* Constructor parameters without a default value.
RequiredArgs(slug) ==
    CASE slug = "sphinx"    -> {"vocabulary"}
      [] slug = "baidu-stt" -> {"app_key", "app_secret"}
      [] OTHER              -> {}

\* STT get_instance: config['vocabulary'] is set when cls.VOCABULARY_TYPE is.
with_vocabulary(slug, config) ==
    IF slug \in {"sphinx", "julius"} THEN config \cup {"vocabulary"}
    ELSE config

\* Files of an acoustic model.
HmmFiles ==
    {"mdef", "feat.params", "means", "noisedict", "transition_matrices",
     "variances", "mixture_weights", "sendump"}

\* missing_hmm_files of PocketSphinxSTT.__init__
missing_hmm_files(files) ==
    ({"mdef", "feat.params", "means", "noisedict", "transition_matrices",
      "variances"} \ files)
    \cup (IF "mixture_weights" \notin files /\ "sendump" \notin files
          THEN {"mixture_weights or sendump"} ELSE {})

\* What is at a path given as hmm_dir: nothing, an empty directory, a
\* complete model (with both or one of mixture_weights and sendump), or a
\* model that lacks noisedict, mdef, or both mixture_weights and sendump.
HmmDirs ==
    {[exists |-> FALSE, files |-> {}]}
    \cup {[exists |-> TRUE, files |-> fs] :
            fs \in {{}, HmmFiles, HmmFiles \ {"mixture_weights"},
                    HmmFiles \ {"noisedict"}, HmmFiles \ {"mdef"},
                    HmmFiles \ {"mixture_weights", "sendump"}}}

\* The two paths a constructor call can be given: the default value of
\* the parameter hmm_dir and the one profile.yml names.
HmmPaths == {"default", "configured"}

\* The path the constructor looks at, given the keyword arguments.
hmm_path(config) == IF "hmm_dir" \in config THEN "configured" ELSE "default"

\* What ps.Decoder(...) does.  pocketsphinx reads feat.params and
\* noisedict only if they are there, and cannot load a model without the
\* other files: then it raises.  With those in place it gives a decoder or
\* raises for a reason of its own.
DecoderOutcomes(dir) ==
    IF missing_hmm_files(dir.files) \subseteq {"feat.params", "noisedict"}
    THEN {"created", "raise"}
    ELSE {"raise"}

\* A call of get_instance and what it did: the keyword arguments, the
\* exception raised (and the missing files its message names), whether
\* ps.Decoder was called, and whether an instance was returned.
Build(slug, config, raised, named, decoder, created) ==
    [engine |-> slug, config |-> config, raised |-> raised, named |-> named,
     decoder |-> decoder, created |-> created]

\* cls(**config) of the engine, after get_config gave config; dir is what
\* is at the path the constructor looks at, e is what is installed.
\* JuliusSTT.__init__ reads self._vocabulary.dfa_file (AttributeError on
\* the default None) and runs julius once: subprocess.call raises OSError
\* when the executable cannot be started.  PocketSphinxSTT.__init__
\* imports pocketsphinx before it looks at hmm_dir; the RuntimeError it
\* raises itself names hmm_dir, a failure of ps.Decoder is pocketsphinx's.
construct(slug, config, dir, outcome, e) ==
    IF ~(RequiredArgs(slug) \subseteq config)
    THEN Build(slug, config, "TypeError", {}, FALSE, FALSE)
    ELSE IF slug = "julius" /\ "vocabulary" \notin config
    THEN Build(slug, config, "AttributeError", {}, FALSE, FALSE)
    ELSE IF slug = "julius" /\ "julius" \notin e
    THEN Build(slug, config, "OSError", {}, FALSE, FALSE)
    ELSE IF slug # "sphinx"
    THEN Build(slug, config, "", {}, FALSE, TRUE)
    ELSE IF "pocketsphinx" \notin e
    THEN Build(slug, config, "ImportError", {}, FALSE, FALSE)
    ELSE IF ~dir.exists
    THEN Build(slug, config, "RuntimeError", {"hmm_dir"}, FALSE, FALSE)
    ELSE IF outcome = "raise"
    THEN Build(slug, config, "RuntimeError", {}, TRUE, FALSE)
    ELSE Build(slug, config, "", {}, TRUE, TRUE)

\* populate.run(): the profile it writes.  Only the answers 'baidu' lead
\* to a baidu_api sub-tree, with both keys; whatever profile.yml held before
\* is replaced.  (stt_engine, tts_engine and stt_passive_engine, which it
\* also writes, are read by no get_config.)
populate_run(stt_response, tts_response) ==
    IF stt_response = "baidu" \/ tts_response = "baidu"
    THEN [kind |-> "mapping", section |-> "baidu_api",
          keys |-> {"app_key", "app_secret"}]
    ELSE [kind |-> "mapping", section |-> "", keys |-> {}]

BuildInit ==
    /\ profile \in Profiles
    /\ hmm_dir \in [HmmPaths -> HmmDirs]
    /\ lastBuild = <<>>
    /\ env \in SUBSET {"julius", "pocketsphinx"}
    /\ lastProbe = <<>>
    /\ SelIdle /\ RunIdle
    /\ GoogleIdle /\ TtsIdle /\ ConcIdle

\* populate.run(), with the answers given to its questions.  The profile
\* it writes has no pocketsphinx sub-tree: a constructor call after it
\* looks at the default path.
Populate ==
    /\ \E stt_response \in {"", "sphinx", "baidu"},
          tts_response \in {"", "espeak", "baidu"} :
         profile' = populate_run(stt_response, tts_response)
    /\ UNCHANGED <<hmm_dir, lastBuild>>
    /\ UNCHANGED <<selVars, runVars, googleVars, ttsVars, probeVars, concVars>>

\* cls.get_instance(...): get_config, then the constructor, which looks
\* at the path profile.yml names or, without one, at the default path.
GetInstance ==
    /\ \E slug \in ProbedEngines :
         LET c == get_config(slug, profile)
             config == with_vocabulary(slug, c.config)
             dir == hmm_dir[hmm_path(config)]
         IN  IF c.raised # ""
             THEN lastBuild' = Build(slug, {}, c.raised, {}, FALSE, FALSE)
             ELSE \E outcome \in (IF slug = "sphinx" /\ dir.exists
                                     /\ "pocketsphinx" \in env
                                  THEN DecoderOutcomes(dir)
                                  ELSE {"raise"}) :
                    lastBuild' = construct(slug, config, dir, outcome, env)
    /\ UNCHANGED <<profile, hmm_dir>>
    /\ UNCHANGED <<selVars, runVars, googleVars, ttsVars, probeVars, concVars>>

BuildNext ==
    \/ GetInstance
    \/ Populate

BuildSpec == BuildInit /\ [][BuildNext]_vars

-----------------------------------------------------------------------------
(* get_token of one instance run by two callers at once *)

\* The threads that call get_token on the same instance.
Callers == {"A", "B"}

\* Answers of the token endpoint to the callers.
ConcResponses ==
    {r \in TokenResponses :
        \/ r.kind = "http_error"
        \/ (r.has_token /\ r.has_expires
            /\ <<r.token, r.expires>> \in {<<"tokA", 3600>>, <<"tokB", 31>>})}

\* The three assignments done as one.
assigned_at_once(line, tok, resp, t) ==
    IF line = "access_token"
    THEN [access_token |-> resp.token, expires_in |-> resp.expires,
          current_time |-> t]
    ELSE tok

\* The assignment of get_token at the given line:
\* self.access_token = r.json()['access_token'],
\* self.expires_in = int(r.json()['expires_in']),
\* self.current_time = int(time.time()), where t is the clock value that
\* was read before the store.
assigned(line, tok, resp, t) ==
    CASE line = "access_token" -> [tok EXCEPT !.access_token = resp.token]
      [] line = "expires_in"   -> [tok EXCEPT !.expires_in = resp.expires]
      [] line = "current_time" -> [tok EXCEPT !.current_time = t]

\* What follows an assignment: the next assignment, the clock read that
\* precedes the last one, or "idle", outside get_token.
next_line(line) ==
    CASE line = "access_token" -> "expires_in"
      [] line = "expires_in"   -> "clock"
      [] line = "current_time" -> "idle"

\* A caller that holds no value it has read.
NotSeen == [current_time |-> 0, expires_in |-> 0, clock |-> 0]

ConcInit ==
    /\ pc = [c \in Callers |-> "idle"]
    /\ got = [c \in Callers |-> NoResponse]
    /\ seen = [c \in Callers |-> NotSeen]
    /\ instance = "baidu-stt"
    /\ now = 0
    /\ access_token = FreshToken.access_token
    /\ expires_in = FreshToken.expires_in
    /\ current_time = FreshToken.current_time
    /\ language = ""
    /\ tmpfiles = 0
    /\ last = NoOp
    /\ SelIdle
    /\ GoogleIdle /\ TtsIdle /\ ProbeIdle /\ BuildIdle

\* Time passes.
ConcTick ==
    /\ \E t \in TimePoints : t > now /\ now' = t
    /\ UNCHANGED <<instance, access_token, expires_in, current_time, language,
                   tmpfiles, last, pc, got, seen>>
    /\ UNCHANGED <<selVars, googleVars, ttsVars, probeVars, buildVars>>

\* The expiry test `self.current_time + self.expires_in - 30 >
\* int(time.time())` reads self.current_time, then self.expires_in, then
\* the clock; another thread can run between any two of the reads.
\* A caller enters get_token and reads self.current_time.
ReadCurrentTime(c) ==
    /\ pc[c] = "idle"
    /\ seen' = [seen EXCEPT ![c] = [@ EXCEPT !.current_time = current_time]]
    /\ pc' = [pc EXCEPT ![c] = "test_expires_in"]
    /\ UNCHANGED <<instance, now, access_token, expires_in, current_time,
                   language, tmpfiles, last, got>>
    /\ UNCHANGED <<selVars, googleVars, ttsVars, probeVars, buildVars>>

\* The caller reads self.expires_in.
ReadExpiresIn(c) ==
    /\ pc[c] = "test_expires_in"
    /\ seen' = [seen EXCEPT ![c] = [@ EXCEPT !.expires_in = expires_in]]
    /\ pc' = [pc EXCEPT ![c] = "test_clock"]
    /\ UNCHANGED <<instance, now, access_token, expires_in, current_time,
                   language, tmpfiles, last, got>>
    /\ UNCHANGED <<selVars, googleVars, ttsVars, probeVars, buildVars>>

\* The caller reads the clock and compares: it returns when the values it
\* read make the token valid and goes on to the request otherwise.
CheckExpiry(c) ==
    /\ pc[c] = "test_clock"
    /\ pc' = [pc EXCEPT ![c] = IF token_valid(seen[c], now) THEN "idle"
                               ELSE "request"]
    /\ seen' = [seen EXCEPT ![c] = NotSeen]
    /\ UNCHANGED <<instance, now, access_token, expires_in, current_time,
                   language, tmpfiles, last, got>>
    /\ UNCHANGED <<selVars, googleVars, ttsVars, probeVars, buildVars>>

\* requests.get and r.raise_for_status(): on HTTPError the caller returns.
SendRequest(c) ==
    /\ pc[c] = "request"
    /\ \E resp \in ConcResponses :
         /\ got' = [got EXCEPT ![c] = resp]
         /\ pc' = [pc EXCEPT ![c] = IF resp.kind = "http_error" THEN "idle"
                                    ELSE "access_token"]
    /\ UNCHANGED <<instance, now, access_token, expires_in, current_time,
                   language, tmpfiles, last, seen>>
    /\ UNCHANGED <<selVars, googleVars, ttsVars, probeVars, buildVars>>

\* int(time.time()) of `self.current_time = int(time.time())`: the clock
\* is read first, the value is stored by a later step.
ReadClock(c) ==
    /\ pc[c] = "clock"
    /\ seen' = [seen EXCEPT ![c] = [@ EXCEPT !.clock = now]]
    /\ pc' = [pc EXCEPT ![c] = "current_time"]
    /\ UNCHANGED <<instance, now, access_token, expires_in, current_time,
                   language, tmpfiles, last, got>>
    /\ UNCHANGED <<selVars, googleVars, ttsVars, probeVars, buildVars>>

\* One of the three stores; the last one stores the clock value read.
Assign(c) ==
    /\ pc[c] \in {"access_token", "expires_in", "current_time"}
    /\ LET tok == assigned(pc[c], Token, got[c], seen[c].clock)
       IN  /\ access_token' = tok.access_token
           /\ expires_in' = tok.expires_in
           /\ current_time' = tok.current_time
    /\ pc' = [pc EXCEPT ![c] = next_line(pc[c])]
    /\ seen' = IF pc[c] = "current_time" THEN [seen EXCEPT ![c] = NotSeen]
               ELSE seen
    /\ UNCHANGED <<instance, now, language, tmpfiles, last, got>>
    /\ UNCHANGED <<selVars, googleVars, ttsVars, probeVars, buildVars>>

\* The step of get_token a caller is at.
CallerStep(c) ==
    \/ ReadCurrentTime(c)
    \/ ReadExpiresIn(c)
    \/ CheckExpiry(c)
    \/ SendRequest(c)
    \/ ReadClock(c)
    \/ Assign(c)

ConcNext ==
    \/ ConcTick
    \/ \E c \in Callers : ReadCurrentTime(c)
    \/ \E c \in Callers : ReadExpiresIn(c)
    \/ \E c \in Callers : CheckExpiry(c)
    \/ \E c \in Callers : SendRequest(c)
    \/ \E c \in Callers : ReadClock(c)
    \/ \E c \in Callers : Assign(c)

ConcSpec == ConcInit /\ [][ConcNext]_vars

\* The number of token fields a step changes.
FieldsChanged ==
    (IF access_token' # access_token THEN 1 ELSE 0)
    + (IF expires_in' # expires_in THEN 1 ELSE 0)
    + (IF current_time' # current_time THEN 1 ELSE 0)

\* C11: when the recognizer or API of an STT engine returns no recognition
\* result, transcribe returns normally a sequence of length zero.
C11_NoResultGivesEmpty ==
    (last.op = "transcribe" /\ last.upstream = "no_result")
    => (last.raised = "" /\ last.result = <<>>)

\* C12: for a successful response of n >= 1 newline-separated JSON documents,
\* GoogleSTT.transcribe returns the upper-cased transcripts of the first
\* result of the last document, whatever the earlier documents are.
C12_LastDocumentUsed ==
    GotTranscripts => heard.result = LastDocTranscripts(heard.body)

\* C20: request_url is None exactly when api_key or language is empty or
\* None, and otherwise is the URL built from the current api_key and
\* language.
C20_RequestUrlDerived ==
    /\ (request_url = NoUrl) <=> (api_key \in {None, ""}
                                      \/ stt_language \in {None, ""})
    /\ request_url # NoUrl =>
           /\ request_url.key = api_key
           /\ request_url.lang = stt_language
           /\ request_url.scheme = "https"
           /\ request_url.netloc = "www.google.com"
           /\ request_url.path = "/speech-api/v2/recognize"

\* A URL is in place after both fields were assigned again: neither holds
\* the value the instance was last heard with.
C20_Witness ==
    /\ heard # <<>>
    /\ heard.url # NoUrl
    /\ request_url # NoUrl
    /\ request_url.key # heard.url.key
    /\ request_url.lang # heard.url.lang

\* C13 as stated: two consecutive calls say(phrase, cache=True) on BaiduTTS
\* call get_speech exactly once in total, and the second call finds the
\* cached file and calls no get_speech.
C13_AsStated ==
    (TwoCachedSays /\ says[1].phrase = says[2].phrase)
    => /\ says[1].hit /\ ~says[1].synth
       /\ says[2].synth

\* C13: of two consecutive calls say(phrase, cache=True) on BaiduTTS for
\* the same cache file, the second finds the file and calls no get_speech
\* exactly when the first found it or stored it; the first stores it only
\* on a miss, after get_speech.  So get_speech runs exactly once over the
\* two calls when the first call stored the file, not at all when the file
\* was there before, and twice when the first call stored nothing.
C13_SecondCallFromCache ==
    TwoCachedSays
    => /\ says[1].hit <=> (says[2].hit \/ says[2].stored)
       /\ says[1].synth <=> ~says[1].hit
       /\ says[2].synth <=> ~says[2].hit
       /\ says[2].stored => says[2].synth
       /\ (says[2].hit \/ says[2].stored)
             => cache_key(says[2].phrase) \in cache

\* The first call synthesized and stored the file, the second was served
\* from the cache.
C13_Witness ==
    /\ TwoCachedSays
    /\ says[1].phrase = says[2].phrase
    /\ says[2].synth /\ says[2].stored
    /\ says[1].hit /\ ~says[1].synth

\* C14: when say has ended, on whichever path, no temporary file that a
\* say created exists.
C14_NoTempFileLeft == tmpfiles = 0

\* C15: is_available of an engine built on the mp3 base (google-tts,
\* baidu-tts) is true only if the audio player, the mp3 decode library and
\* the network are all present.
C15_CompositeNeedsAllProbes ==
    (/\ lastProbe # <<>>
     /\ lastProbe.engine \in {"google-tts", "baidu-tts"}
     /\ lastProbe.answer)
    => {"aplay", "mad", "network"} \subseteq env

\* C16: get_instance of every engine succeeds when the profile file is
\* missing, has no sub-tree for the engine or lacks keys: no error is
\* raised by get_config or by the constructor.  (The errors that come from
\* what is installed, ImportError of pocketsphinx, RuntimeError of the
\* acoustic model or the decoder and OSError of a missing julius, are left
\* aside.)
C16_MissingOptionsDefaulted ==
    (/\ lastBuild # <<>>
     /\ lastBuild.raised \notin {"ImportError", "RuntimeError", "OSError"})
    => (lastBuild.raised = "" /\ lastBuild.created)

\* C17: with pocketsphinx installed, the constructor of 'sphinx' fails with
\* an error that names what is missing whenever the directory it looks at
\* or a required model file in it is missing; then no instance (and so no
\* decoder) is returned.
C17_SphinxFailsOnMissingModel ==
    (/\ lastBuild # <<>>
     /\ lastBuild.engine = "sphinx"
     /\ "vocabulary" \in lastBuild.config
     /\ "pocketsphinx" \in env
     /\ LET dir == hmm_dir[hmm_path(lastBuild.config)]
        IN  ~dir.exists \/ missing_hmm_files(dir.files) # {})
    => /\ lastBuild.raised = "RuntimeError"
       /\ lastBuild.named # {}
       /\ ~lastBuild.created

\* C18: access_token, expires_in and current_time change only in a step
\* that called get_token, sent the token request and got both values in
\* the answer; every other step leaves the three fields unchanged.
C18_TokenChangesOnlyOnSuccess ==
    [][tokenVars' # tokenVars
         => /\ last'.called
            /\ last'.sent
            /\ TokenRequestSucceeded(last'.resp)]_vars

\* C19: get_token is neither atomic nor locked.  No step writes more than
\* one of access_token, expires_in and current_time, and no caller ever
\* waits for the other: wherever the other caller is, inside the expiry
\* test, with a request out or between two of its stores, a caller can
\* take its own next step of get_token.  So both callers can have a
\* request out at once and the fields can hold values of different
\* answers.
C19_RefreshNotAtomic ==
    /\ [][FieldsChanged <= 1]_vars
    /\ [](\A c \in Callers : ENABLED CallerStep(c))

\* Both callers found the token expired and sent a token request in the
\* same refresh; both have finished, and access_token is left from one
\* answer while expires_in is left from the other.
C19_Witness ==
    \E c, d \in Callers :
        /\ c # d
        /\ TokenRequestSucceeded(got[c]) /\ TokenRequestSucceeded(got[d])
        /\ got[c].token # got[d].token
        /\ got[c].expires # got[d].expires
        /\ access_token = got[c].token
        /\ expires_in = got[d].expires
        /\ pc[c] = "idle" /\ pc[d] = "idle"

====
